---- MODULE Spec2Model ----
(***************************************************************************)
(* A model of mkslides (src/main.rs, src/slide.rs): a terminal slide       *)
(* viewer.  A document is split into sections on "---", each section is    *)
(* parsed by comrak and its tree is folded into a list of SlideItems; the  *)
(* display loop draws the slide under the cursor and reacts to key events. *)
(*                                                                         *)
(* Strings are sequences of one-character strings.  Four specifications    *)
(* share the module:                                                       *)
(*   Spec        main(): terminal setup, mkslides, run, terminal restore   *)
(*   SpecSplit   the split / trim_matches / trim pipeline of mkslides      *)
(*   SpecConv    the traversal closure of mkslides on a comrak tree        *)
(*   SpecRender  the closure of render_slide on a slide and a frame        *)
(***************************************************************************)
EXTENDS Integers, Sequences, FiniteSets, TLC

VARIABLES
    \* main / run
    pc,            \* position of main: which call is next
    raw,           \* terminal raw mode is enabled
    alt,           \* the alternate screen is entered
    slides,        \* Slides.slides: sequence of Slide
    current_idx,   \* Slides.current_idx
    result,        \* how main ended: "none", "ok", "err", "panic"
    ev,            \* the event returned by event::read, until it is matched
    quit,          \* the loop was left through `break`
    cause,         \* which call made main end
    checked,       \* the build checks integer overflow (debug profile)
    \* split pipeline
    doc,           \* md_slides: the text read from the file
    rest,          \* what the split iterator has not looked at yet
    sections,      \* the trimmed pieces, in order
    \* traversal closure
    tree,          \* the parsed section (root node)
    edges,         \* what is left of node.traverse()
    items,         \* the growing Vec<SlideItem>
    new,           \* the closure's `new` flag
    \* render_slide closure
    frame,         \* frame.size(): [width, height]
    todo,          \* the items not rendered yet
    prev_y,        \* render_slide's prev_y
    draws,         \* the rectangles passed to render_widget, in order
    rstate         \* "idle", "title", "items", "done", "panic"

mainVars   == <<pc, raw, alt, slides, current_idx, result, ev, quit, cause>>
splitVars  == <<doc, rest, sections>>
convVars   == <<tree, edges, items, new>>
renderVars == <<frame, todo, prev_y, draws, rstate>>
vars       == <<mainVars, checked, splitVars, convVars, renderVars>>

----------------------------------------------------------------------------
(* Generic helpers *)

Min(a, b) == IF a < b THEN a ELSE b

Max(a, b) == IF a < b THEN b ELSE a

RECURSIVE SeqsUpTo(_, _)
\* All sequences over S of length at most n.
SeqsUpTo(S, n) ==
    IF n = 0 THEN {<<>>}
    ELSE LET shorter == SeqsUpTo(S, n - 1)
         IN  shorter \cup {Append(s, c) : s \in shorter, c \in S}

RECURSIVE Concat(_)
\* The concatenation of a sequence of strings.
Concat(ss) == IF ss = <<>> THEN <<>> ELSE Head(ss) \o Concat(Tail(ss))

Last(s) == s[Len(s)]

Front(s) == SubSeq(s, 1, Len(s) - 1)

----------------------------------------------------------------------------
(* Machine integers *)

U16 == 65536

\* `x as u16`: truncation to 16 bits.
as_u16(x) == x % U16

\* u16 `a + b` in a build without overflow checks.
u16_add(a, b) == (a + b) % U16

\* u16 `a + b` exceeds u16::MAX: a panic ("attempt to add with overflow") in
\* a build that checks overflow, a wrap in one that does not.
Overflows(a, b) == a + b >= U16

\* u16 `a - b` in a build without overflow checks (wraps).
u16_sub(a, b) == (a - b + U16) % U16

----------------------------------------------------------------------------
(* mkslides, lines 161-163: split("---"), trim_matches('-'), trim() *)

Sep == <<"-", "-", "-">>

\* The characters str::trim() strips (those of them the model uses).
White == {" ", "\n", "\t", "\r"}

\* The first index at which pat occurs in s, or 0.
Find(s, pat) ==
    LET hits == {i \in 1..(Len(s) - Len(pat) + 1) :
                    SubSeq(s, i, i + Len(pat) - 1) = pat}
    IN  IF hits = {} THEN 0 ELSE CHOOSE i \in hits : \A j \in hits : i <= j

RECURSIVE split_skip_empty(_, _)
\* A split that leaves out the empty pieces.
split_skip_empty(s, pat) ==
    LET i == Find(s, pat)
    IN  IF i = 0 THEN (IF s = <<>> THEN <<>> ELSE <<s>>)
        ELSE (IF i = 1 THEN <<>> ELSE <<SubSeq(s, 1, i - 1)>>)
             \o split_skip_empty(SubSeq(s, i + Len(pat), Len(s)), pat)

RECURSIVE split(_, _)
\* str::split(pat): the pieces between the non-overlapping matches of pat,
\* found left to right; always at least one piece.
split(s, pat) ==
    LET i == Find(s, pat)
    IN  IF i = 0 THEN <<s>>
        ELSE <<SubSeq(s, 1, i - 1)>> \o split(SubSeq(s, i + Len(pat), Len(s)), pat)

RECURSIVE TrimStart(_, _)
\* s without its longest prefix of characters of the set drop.
TrimStart(s, drop) ==
    IF s # <<>> /\ Head(s) \in drop THEN TrimStart(Tail(s), drop) ELSE s

RECURSIVE TrimEnd(_, _)
\* s without its longest suffix of characters of the set drop.
TrimEnd(s, drop) ==
    IF s # <<>> /\ Last(s) \in drop THEN TrimEnd(Front(s), drop) ELSE s

\* str::trim_matches('-')
trim_matches(s) == TrimEnd(TrimStart(s, {"-"}), {"-"})

\* str::trim()
trim(s) == TrimEnd(TrimStart(s, White), White)

\* One piece of the split, as line 163 trims it.
TrimSection(x) == trim(trim_matches(x))

\* The section texts handed to parse_document, in order.
Sections(md_slides) ==
    LET pieces == split(md_slides, Sep)
    IN  [i \in 1..Len(pieces) |-> TrimSection(pieces[i])]

----------------------------------------------------------------------------
(* SlideItem, Slide *)

NoText == <<>>

Heading(t)   == [kind |-> "Heading",   text |-> t,      bullets |-> <<>>]

Paragraph(t) == [kind |-> "Paragraph", text |-> t,      bullets |-> <<>>]

Bullets(bs)  == [kind |-> "Bullets",   text |-> NoText, bullets |-> bs]

Code(t)      == [kind |-> "Code",      text |-> t,      bullets |-> <<>>]

QR(t)        == [kind |-> "QR",        text |-> t,      bullets |-> <<>>]

\* The path given on the command line; every slide's title.
Path == <<"s", ".", "m", "d">>

Slide(its) == [title |-> Path, items |-> its]

----------------------------------------------------------------------------
(* comrak trees and their traversal *)

Node(v, lit, info, kids) ==
    [value |-> v, literal |-> lit, info |-> info, children |-> kids]

Text(lit)          == Node("Text", lit, <<>>, <<>>)

InlineCode(lit)    == Node("Code", lit, <<>>, <<>>)

Emph(kids)         == Node("Emph", <<>>, <<>>, kids)

ParagraphNode(kids) == Node("Paragraph", <<>>, <<>>, kids)

HeadingNode(kids)  == Node("Heading", <<>>, <<>>, kids)

CodeBlock(info, lit) == Node("CodeBlock", lit, info, <<>>)

Item(kids)         == Node("Item", <<>>, <<>>, kids)

List(kids)         == Node("List", <<>>, <<>>, kids)

Document(kids)     == Node("Document", <<>>, <<>>, kids)

Edge(e, n) == [edge |-> e, value |-> n.value, literal |-> n.literal, info |-> n.info]

RECURSIVE traverse(_)
\* arena_tree::Node::traverse: Start(node), the traversals of its children in
\* order, End(node); a leaf yields Start then End.
traverse(n) ==
    LET RECURSIVE kids(_)
        kids(cs) == IF cs = <<>> THEN <<>> ELSE traverse(Head(cs)) \o kids(Tail(cs))
    IN  <<Edge("Start", n)>> \o kids(n.children) \o <<Edge("End", n)>>

----------------------------------------------------------------------------
(* mkslides, lines 166-246: the closure run on every edge of the traversal. *)
(* Its state is the pair (items, new).                                      *)

Conv(its, nw) == [items |-> its, new |-> nw]

QrTag == <<"q", "r", "c", "o", "d", "e">>

\* The backtick character (SANY cannot read one inside a string literal).
Tick == <<"<backtick>">>

\* The items with the last one replaced.
SetLast(its, item) == [its EXCEPT ![Len(its)] = item]

\* Lines 212-226 and 234-242: append s to the text of a Paragraph or Heading,
\* or to the last bullet of a Bullets that has one; anything else is left alone.
AppendTo(item, s) ==
    CASE item.kind \in {"Paragraph", "Heading"} ->
            [item EXCEPT !.text = @ \o s]
      [] item.kind = "Bullets" /\ item.bullets # <<>> ->
            [item EXCEPT !.bullets[Len(item.bullets)] = @ \o s]
      [] OTHER -> item

\* An End that pushes a block of its own.
OnEnd_pushes(st) == Conv(Append(st.items, Heading(<<"a">>)), TRUE)

\* NodeEdge::End (lines 171-174)
OnEnd(st) == Conv(st.items, TRUE)

\* NodeValue::List (lines 177-181)
OnList(st) == Conv(Append(st.items, Bullets(<<>>)), FALSE)

\* NodeValue::Heading (lines 182-185)
OnHeading(st) == Conv(Append(st.items, Heading(<<>>)), FALSE)

\* A code block is a QR whatever its tag.
OnCodeBlock_always_qr(st, info, literal) ==
    Conv(Append(st.items, QR(trim(literal))), FALSE)

\* NodeValue::CodeBlock (lines 186-196)
OnCodeBlock(st, info, literal) ==
    IF info = QrTag
    THEN Conv(Append(st.items, QR(trim(literal))), FALSE)
    ELSE Conv(Append(st.items, Code(literal)), FALSE)

\* Lines 200-202: a Bullets gets a new empty bullet; anything else is left alone.
PushBullet(item) ==
    IF item.kind = "Bullets" THEN [item EXCEPT !.bullets = Append(@, <<>>)] ELSE item

\* NodeValue::Item (lines 197-205)
OnItem(st) ==
    IF st.items = <<>> THEN Conv(st.items, FALSE)
    ELSE Conv(SetLast(st.items, PushBullet(Last(st.items))), FALSE)

\* items.last_mut().map(...) of lines 212 and 234: s goes to the last item, if
\* there is one.
FoldInto(its, s) ==
    IF its = <<>> THEN its ELSE SetLast(its, AppendTo(Last(its), s))

\* Lines 208-211 and 230-233: a Paragraph is opened when `new` is set.
OpenIfNew(st) ==
    IF st.new THEN Conv(Append(st.items, Paragraph(<<>>)), FALSE) ELSE st

\* Inline code folded in without its backticks.
OnCode_no_backticks(st, literal) ==
    LET o == OpenIfNew(st)
    IN  Conv(FoldInto(o.items, literal), o.new)

\* NodeValue::Code (lines 206-227)
OnCode(st, literal) ==
    LET o == OpenIfNew(st)
    IN  Conv(FoldInto(o.items, Tick \o literal \o Tick), o.new)

\* NodeValue::Text (lines 228-243)
OnText(st, literal) ==
    LET o == OpenIfNew(st)
    IN  Conv(FoldInto(o.items, literal), o.new)

\* The closure applied to one edge (lines 168-246).
OnEdge(st, e) ==
    IF e.edge = "End" THEN OnEnd(st)
    ELSE CASE e.value = "List"      -> OnList(st)
           [] e.value = "Heading"   -> OnHeading(st)
           [] e.value = "CodeBlock" -> OnCodeBlock(st, e.info, e.literal)
           [] e.value = "Item"      -> OnItem(st)
           [] e.value = "Code"      -> OnCode(st, e.literal)
           [] e.value = "Text"      -> OnText(st, e.literal)
           [] OTHER                 -> st

RECURSIVE Fold(_, _)
\* for_each over the traversal.
Fold(st, es) == IF es = <<>> THEN st ELSE Fold(OnEdge(st, Head(es)), Tail(es))

\* The items of the slide built from one parsed section (lines 165-251).
SlideItems(root) == Fold(Conv(<<>>, TRUE), traverse(root)).items

----------------------------------------------------------------------------
(* Slides (lines 139-155) *)

\* Slides::current: the index of the slide returned, or 0 for None.
current(sl, idx) == IF idx + 1 <= Len(sl) THEN idx + 1 ELSE 0

\* A next() that does not clamp.
next_unclamped(sl, idx) == idx + 1

\* Slides::next, when `len - 1` does not underflow or the build lets it wrap
\* (to usize::MAX, above every index).
next(sl, idx) == IF Len(sl) = 0 THEN idx + 1 ELSE Min(idx + 1, Len(sl) - 1)

\* Slides::next panics: `len - 1` underflows in a build that checks overflow.
next_panics(sl, chk) == Len(sl) = 0 /\ chk

\* A prev() that subtracts without saturating.
prev_unsaturated(idx) == idx - 1

\* Slides::prev
prev(idx) == IF idx = 0 THEN 0 ELSE idx - 1

----------------------------------------------------------------------------
(* SlideItem::render (lines 27-129) *)

Rect(x, y, w, h) == [x |-> x, y |-> y, width |-> w, height |-> h]

RECURSIVE lines(_)
\* str::lines(): the pieces between line feeds; a final empty piece is not a
\* line.  (The model's texts hold no carriage return.)
lines(src) ==
    LET i == Find(src, <<"\n">>)
    IN  IF src = <<>> THEN <<>>
        ELSE IF i = 0 THEN <<src>>
        ELSE <<SubSeq(src, 1, i - 1)>> \o lines(SubSeq(src, i + 1, Len(src)))

RECURSIVE MaxOf(_)
\* Iterator::max().unwrap_or(0) over a sequence of numbers.
MaxOf(ns) == IF ns = <<>> THEN 0 ELSE Max(Head(ns), MaxOf(Tail(ns)))

Lens(ss) == [i \in 1..Len(ss) |-> Len(ss[i])]

MaxWidth == 80

\* The result of one render: the rectangle given to render_widget and the
\* offset returned.  ok is FALSE when the call panicked; drawn tells whether
\* render_widget had been called by then.
Rendered(r, nxt) == [ok |-> TRUE, drawn |-> TRUE, rect |-> r, next |-> nxt]

\* A panic before render_widget: nothing is drawn.
RenderPanic(area) == [ok |-> FALSE, drawn |-> FALSE, rect |-> area, next |-> area.y]

\* A panic in the addition of the returned offset: r was drawn, nothing is
\* returned.
DrawnPanic(r) == [ok |-> FALSE, drawn |-> TRUE, rect |-> r, next |-> r.y]

\* The tail expression `n as u16 + 2 + rect.y` of lines 68, 86, 101 and 126,
\* evaluated after render_widget drew r; chk is a build that checks overflow.
Returned(r, n, chk) ==
    LET n2 == u16_add(as_u16(n), 2)
    IN  IF chk /\ (Overflows(as_u16(n), 2) \/ Overflows(n2, r.y))
        THEN DrawnPanic(r)
        ELSE Rendered(r, u16_add(n2, r.y))

\* Heading arm (lines 29-47): `src.len() as u16 + 4` is computed before
\* render_widget is called, `2 + rect.y` after.
render_heading(src, rect, chk) ==
    LET len == as_u16(Len(src))
        r   == Rect(rect.x, rect.y, u16_add(len, 4), 1)
    IN  IF chk /\ Overflows(len, 4) THEN RenderPanic(rect)
        ELSE IF chk /\ Overflows(2, rect.y) THEN DrawnPanic(r)
        ELSE Rendered(r, u16_add(2, rect.y))

\* A Paragraph arm whose height is one row less.
render_paragraph_short(src, rect, chk) ==
    LET ls      == Lens(lines(src))
        max_len == MaxOf(ls)
        nlines  == Len(ls)
        height  == (max_len \div MaxWidth) + 1
        width   == IF height = 1 THEN max_len ELSE MaxWidth
    IN  Returned(Rect(rect.x, rect.y, as_u16(width), as_u16(height)), nlines, chk)

\* Paragraph arm (lines 48-69)
render_paragraph(src, rect, chk) ==
    LET ls      == Lens(lines(src))
        max_len == MaxOf(ls)
        nlines  == Len(ls)
        height  == (max_len \div MaxWidth) + 2
        width   == IF height = 1 THEN max_len ELSE MaxWidth
    IN  Returned(Rect(rect.x, rect.y, as_u16(width), as_u16(height)), nlines, chk)

\* Bullets arm (lines 70-87); `max_len as u16 + 5` comes before the draw.
render_bullets(ls, rect, chk) ==
    LET max_len == MaxOf(Lens(ls))
        nlines  == Len(ls)
    IN  IF chk /\ Overflows(as_u16(max_len), 5) THEN RenderPanic(rect)
        ELSE Returned(Rect(rect.x, rect.y, u16_add(as_u16(max_len), 5), as_u16(nlines)),
                      nlines, chk)

\* Code arm (lines 88-102); Text::raw(src) holds one line per line of src.
\* `width as u16 + 2` comes before the draw.
render_code(src, rect, chk) ==
    LET width  == MaxOf(Lens(lines(src)))
        height == Len(lines(src))
    IN  IF chk /\ Overflows(as_u16(width), 2) THEN RenderPanic(rect)
        ELSE Returned(Rect(rect.x, rect.y, u16_add(as_u16(width), 2), as_u16(height)),
                      height, chk)

\* QR arm (lines 103-127).  side is what QrCode::new(src) gave: 0 for an Err
\* (unwrap panics), else the number of modules per side; every module is
\* doubled horizontally.
render_qr(side, rect, chk) ==
    IF side = 0 THEN RenderPanic(rect)
    ELSE LET max_len == 2 * side
             nlines  == side
         IN  Returned(Rect(rect.x, rect.y, as_u16(max_len), as_u16(nlines)), nlines, chk)

\* SlideItem::render
render(item, rect, side, chk) ==
    CASE item.kind = "Heading"   -> render_heading(item.text, rect, chk)
      [] item.kind = "Paragraph" -> render_paragraph(item.text, rect, chk)
      [] item.kind = "Bullets"   -> render_bullets(item.bullets, rect, chk)
      [] item.kind = "Code"      -> render_code(item.text, rect, chk)
      [] item.kind = "QR"        -> render_qr(side, rect, chk)

\* qrcode::QrCode::new (line 104), a library call: a payload of at most
\* QrV1Bytes bytes fits version 1 (21 modules per side); for a longer one the
\* library picks a larger version or fails when no version holds the data.
QrV1Bytes == 14

QrV1Side == 21

QrV2Side == 25

QrSides(item) ==
    IF item.kind # "QR" THEN {0}
    ELSE IF Len(item.text) <= QrV1Bytes THEN {QrV1Side}
    ELSE {0, QrV2Side}

----------------------------------------------------------------------------
(* render_slide (lines 261-297) *)

TitleRect(title) == Rect(0, 1, u16_add(as_u16(Len(title)), 2), 1)

\* Line 276, `src.len() as u16 + 2`, panics in a build that checks overflow.
TitlePanics(title, chk) == chk /\ Overflows(as_u16(Len(title)), 2)

FirstY == 4

Margin == 8

LeftX == 4

\* Lines 291-292: `width - 8` or `height - prev_y` goes below zero.
Underflows(fr, y) == fr.width < Margin \/ fr.height < y

\* The rectangle of lines 288-293, in a build where the subtractions wrap.
Area(fr, y) == Rect(LeftX, y, u16_sub(fr.width, Margin), u16_sub(fr.height, y))

\* One turn of the loop of lines 285-295: the call of item.render and what it
\* leaves in prev_y; a build that checks overflow panics on an underflow of
\* lines 291-292 and on an overflow of an addition inside item.render.
RenderItem(item, fr, y, chk, side) ==
    IF chk /\ Underflows(fr, y) THEN RenderPanic(Area(fr, y))
    ELSE render(item, Area(fr, y), side, chk)

----------------------------------------------------------------------------
(* Inputs of the model *)

\* No value (an unused variable, or no event read yet).
None == <<>>

NL == <<"\n">>

Fence == Tick \o Tick \o Tick

\* A QR payload longer than QrV1Bytes.
LongPayload == [i \in 1..(QrV1Bytes + 1) |-> "a"]

\* Section texts whose comrak tree is known, and that tree.
TitleText == <<"#", " ", "T">> \o NL \o NL \o <<"a">>

TitleTree == Document(<<HeadingNode(<<Text(<<"T">>)>>), ParagraphNode(<<Text(<<"a">>)>>)>>)

QrText == Fence \o QrTag \o NL \o LongPayload \o NL \o Fence

QrTree == Document(<<CodeBlock(QrTag, LongPayload \o NL)>>)

EmptyTree == Document(<<>>)

\* parse_document (line 164), a library call, on the section texts the model
\* of main reads.
parse_document(x) ==
    CASE x = <<>>      -> EmptyTree
      [] x = TitleText -> TitleTree
      [] x = QrText    -> QrTree

\* The slides of lines 161-252.
MakeSlides(md_slides) ==
    LET secs == Sections(md_slides)
    IN  [i \in 1..Len(secs) |-> Slide(SlideItems(parse_document(secs[i])))]

\* The largest number of sections of a document main reads.
MaxSections == 3

RECURSIVE Join(_)
\* The section texts written as one document, a line of three hyphens between
\* two sections.
Join(texts) ==
    IF texts = <<>> THEN <<>>
    ELSE IF Len(texts) = 1 THEN texts[1]
    ELSE texts[1] \o NL \o Sep \o NL \o Join(Tail(texts))

\* The documents main reads.
Docs == {Join(ts) : ts \in SeqsUpTo({<<>>, TitleText, QrText}, MaxSections)}

\* frame.size() as terminal.draw finds it.
Frames == {[width |-> w, height |-> h] : w \in {7, 80}, h \in {3, 5, 24}}

\* What event::read returns: a key event (code, kind) or another event.
Key(code, kind) == [type |-> "Key", code |-> code, kind |-> kind]

Events ==
    {Key(c, k) : c \in {"q", "h", "l", "x"}, k \in {"Press", "Repeat", "Release"}}
    \cup {[type |-> "Resize", code |-> "", kind |-> ""]}

----------------------------------------------------------------------------
(* Idle values of the variables a specification does not use *)

MainIdle ==
    /\ pc = "idle" /\ raw = FALSE /\ alt = FALSE /\ slides = <<>>
    /\ current_idx = 0 /\ result = "none" /\ ev = None /\ quit = FALSE
    /\ cause = "none"

SplitIdle == doc = None /\ rest = None /\ sections = <<>>

ConvIdle == tree = None /\ edges = <<>> /\ items = <<>> /\ new = TRUE

RenderIdle ==
    /\ frame = None /\ todo = <<>> /\ prev_y = 0 /\ draws = <<>>
    /\ rstate = "idle"

----------------------------------------------------------------------------
(* render_slide's closure, one action per call of render_widget *)

\* Lines 267-283: the title bar; a slide without items is done.
RenderTitle ==
    /\ rstate = "title"
    /\ IF TitlePanics(Path, checked)
       THEN /\ rstate' = "panic"
            /\ UNCHANGED <<draws, prev_y>>
       ELSE /\ draws' = Append(draws, [area |-> None, rect |-> TitleRect(Path),
                                       next |-> FirstY])
            /\ prev_y' = FirstY
            /\ rstate' = IF Len(todo) = 0 THEN "done" ELSE "items"
    /\ UNCHANGED <<frame, todo, mainVars, checked, splitVars, convVars>>

\* Lines 285-295: one turn of the loop.
RenderNext ==
    /\ rstate = "items"
    /\ \E side \in QrSides(Head(todo)) :
          LET r == RenderItem(Head(todo), frame, prev_y, checked, side)
          IN  IF r.ok
              THEN /\ draws' = Append(draws, [area |-> Area(frame, prev_y),
                                              rect |-> r.rect, next |-> r.next])
                   /\ prev_y' = r.next
                   /\ todo' = Tail(todo)
                   /\ rstate' = IF Len(todo) = 1 THEN "done" ELSE "items"
              ELSE /\ rstate' = "panic"
                   /\ draws' = IF r.drawn
                               THEN Append(draws, [area |-> Area(frame, prev_y),
                                                   rect |-> r.rect, next |-> r.next])
                               ELSE draws
                   /\ UNCHANGED <<prev_y, todo>>
    /\ UNCHANGED <<frame, mainVars, checked, splitVars, convVars>>

----------------------------------------------------------------------------
(* main (src/main.rs) *)

\* main returns (or unwinds) with result res because of the call named why.
Exit(res, why) == pc' = "exit" /\ result' = res /\ cause' = why

\* Lines 17-19: the first argument or a panic.
Args ==
    /\ pc = "args"
    /\ \/ pc' = "enable_raw" /\ UNCHANGED <<result, cause>>
       \/ Exit("panic", "args")
    /\ UNCHANGED <<raw, alt, slides, current_idx, ev, quit>>
    /\ UNCHANGED <<checked, splitVars, convVars, renderVars>>

\* setup_terminal, line 28
EnableRaw ==
    /\ pc = "enable_raw"
    /\ \/ raw' = TRUE /\ pc' = "enter_alt" /\ UNCHANGED <<result, cause>>
       \/ Exit("err", "enable_raw_mode") /\ UNCHANGED raw
    /\ UNCHANGED <<alt, slides, current_idx, ev, quit>>
    /\ UNCHANGED <<checked, splitVars, convVars, renderVars>>

\* setup_terminal, line 29
EnterAlt ==
    /\ pc = "enter_alt"
    /\ \/ alt' = TRUE /\ pc' = "new_terminal" /\ UNCHANGED <<result, cause>>
       \/ Exit("err", "EnterAlternateScreen") /\ UNCHANGED alt
    /\ UNCHANGED <<raw, slides, current_idx, ev, quit>>
    /\ UNCHANGED <<checked, splitVars, convVars, renderVars>>

\* setup_terminal, line 30
NewTerminal ==
    /\ pc = "new_terminal"
    /\ \/ pc' = "mkslides" /\ UNCHANGED <<result, cause>>
       \/ Exit("err", "Terminal::new")
    /\ UNCHANGED <<raw, alt, slides, current_idx, ev, quit>>
    /\ UNCHANGED <<checked, splitVars, convVars, renderVars>>

\* mkslides (slide.rs lines 157-259), called at main.rs line 21
MkSlides ==
    /\ pc = "mkslides"
    /\ \/ \E md_slides \in Docs :
             /\ doc' = md_slides
             /\ slides' = MakeSlides(md_slides)
             /\ current_idx' = 0
             /\ pc' = "draw"
             /\ UNCHANGED <<result, cause>>
       \/ Exit("err", "read_to_string") /\ UNCHANGED <<doc, slides, current_idx>>
    /\ UNCHANGED <<raw, alt, ev, quit>>
    /\ UNCHANGED <<checked, rest, sections, convVars, renderVars>>

\* run, lines 41-43: current() or an error; then terminal.draw runs the closure.
Draw ==
    /\ pc = "draw"
    /\ IF current(slides, current_idx) = 0
       THEN /\ Exit("err", "current")
            /\ UNCHANGED renderVars
       ELSE /\ \E fr \in Frames : frame' = fr
            /\ todo' = slides[current(slides, current_idx)].items
            /\ draws' = <<>>
            /\ prev_y' = 0
            /\ rstate' = "title"
            /\ pc' = "render"
            /\ UNCHANGED <<result, cause>>
    /\ UNCHANGED <<raw, alt, slides, current_idx, ev, quit>>
    /\ UNCHANGED <<checked, splitVars, convVars>>

\* terminal.draw returns: the frame is flushed, or an io error.
DrawDone ==
    /\ pc = "render" /\ rstate = "done"
    /\ \/ pc' = "poll" /\ UNCHANGED <<result, cause>>
       \/ Exit("err", "draw")
    /\ rstate' = "idle"
    /\ UNCHANGED <<raw, alt, slides, current_idx, ev, quit>>
    /\ UNCHANGED <<frame, todo, prev_y, draws>>
    /\ UNCHANGED <<checked, splitVars, convVars>>

\* The closure panicked: main unwinds.
DrawPanic ==
    /\ pc = "render" /\ rstate = "panic"
    /\ Exit("panic", "render")
    /\ rstate' = "idle"
    /\ UNCHANGED <<raw, alt, slides, current_idx, ev, quit>>
    /\ UNCHANGED <<frame, todo, prev_y, draws>>
    /\ UNCHANGED <<checked, splitVars, convVars>>

\* run, line 44: event::poll(200 ms)
Poll ==
    /\ pc = "poll"
    /\ \/ pc' = "read" /\ UNCHANGED <<result, cause>>
       \/ pc' = "draw" /\ UNCHANGED <<result, cause>>
       \/ Exit("err", "poll")
    /\ UNCHANGED <<raw, alt, slides, current_idx, ev, quit>>
    /\ UNCHANGED <<checked, splitVars, convVars, renderVars>>

\* run, line 45: event::read()
Read ==
    /\ pc = "read"
    /\ \/ \E e \in Events : ev' = e /\ pc' = "match" /\ UNCHANGED <<result, cause>>
       \/ Exit("err", "read") /\ UNCHANGED ev
    /\ UNCHANGED <<raw, alt, slides, current_idx, quit>>
    /\ UNCHANGED <<checked, splitVars, convVars, renderVars>>

\* The patterns of lines 47-49: (KeyCode::Char(c), KeyEventKind::Release).
Released(e, c) == e.type = "Key" /\ e.code = c /\ e.kind = "Release"

\* run, line 47
MatchQuit ==
    /\ pc = "match" /\ Released(ev, "q")
    /\ quit' = TRUE
    /\ pc' = "disable_raw"
    /\ ev' = None
    /\ UNCHANGED <<raw, alt, slides, current_idx, result, cause>>
    /\ UNCHANGED <<checked, splitVars, convVars, renderVars>>

\* run, line 48
MatchPrev ==
    /\ pc = "match" /\ Released(ev, "h")
    /\ current_idx' = prev(current_idx)
    /\ pc' = "draw"
    /\ ev' = None
    /\ UNCHANGED <<raw, alt, slides, quit, result, cause>>
    /\ UNCHANGED <<checked, splitVars, convVars, renderVars>>

\* run, line 49
MatchNext ==
    /\ pc = "match" /\ Released(ev, "l")
    /\ IF next_panics(slides, checked)
       THEN Exit("panic", "next") /\ UNCHANGED current_idx
       ELSE /\ current_idx' = next(slides, current_idx)
            /\ pc' = "draw"
            /\ UNCHANGED <<result, cause>>
    /\ ev' = None
    /\ UNCHANGED <<raw, alt, slides, quit>>
    /\ UNCHANGED <<checked, splitVars, convVars, renderVars>>

\* An event that is not acted on goes back to poll without a draw.
MatchOther_no_redraw ==
    /\ pc = "match"
    /\ ~Released(ev, "q") /\ ~Released(ev, "h") /\ ~Released(ev, "l")
    /\ pc' = "poll"
    /\ ev' = None
    /\ UNCHANGED <<raw, alt, slides, current_idx, quit, result, cause>>
    /\ UNCHANGED <<checked, splitVars, convVars, renderVars>>

\* run, lines 45 and 50: another key, another kind, or no key event
MatchOther ==
    /\ pc = "match"
    /\ ~Released(ev, "q") /\ ~Released(ev, "h") /\ ~Released(ev, "l")
    /\ pc' = "draw"
    /\ ev' = None
    /\ UNCHANGED <<raw, alt, slides, current_idx, quit, result, cause>>
    /\ UNCHANGED <<checked, splitVars, convVars, renderVars>>

\* restore_terminal, line 34
DisableRaw ==
    /\ pc = "disable_raw"
    /\ \/ raw' = FALSE /\ pc' = "leave_alt" /\ UNCHANGED <<result, cause>>
       \/ Exit("err", "disable_raw_mode") /\ UNCHANGED raw
    /\ UNCHANGED <<alt, slides, current_idx, ev, quit>>
    /\ UNCHANGED <<checked, splitVars, convVars, renderVars>>

\* restore_terminal, line 35
LeaveAlt ==
    /\ pc = "leave_alt"
    /\ \/ alt' = FALSE /\ pc' = "show_cursor" /\ UNCHANGED <<result, cause>>
       \/ Exit("err", "LeaveAlternateScreen") /\ UNCHANGED alt
    /\ UNCHANGED <<raw, slides, current_idx, ev, quit>>
    /\ UNCHANGED <<checked, splitVars, convVars, renderVars>>

\* restore_terminal, line 36, and main's Ok(())
ShowCursor ==
    /\ pc = "show_cursor"
    /\ \/ Exit("ok", "quit")
       \/ Exit("err", "show_cursor")
    /\ UNCHANGED <<raw, alt, slides, current_idx, ev, quit>>
    /\ UNCHANGED <<checked, splitVars, convVars, renderVars>>

Init ==
    /\ pc = "args" /\ raw = FALSE /\ alt = FALSE /\ slides = <<>>
    /\ current_idx = 0 /\ result = "none" /\ ev = None /\ quit = FALSE
    /\ cause = "none"
    /\ checked \in BOOLEAN
    /\ SplitIdle /\ ConvIdle /\ RenderIdle

RunLoop ==
    \/ Draw \/ RenderTitle \/ RenderNext \/ DrawDone \/ DrawPanic
    \/ Poll \/ Read \/ MatchQuit \/ MatchPrev \/ MatchNext \/ MatchOther

Next ==
    \/ Args \/ EnableRaw \/ EnterAlt \/ NewTerminal \/ MkSlides
    \/ RunLoop
    \/ DisableRaw \/ LeaveAlt \/ ShowCursor

Spec == Init /\ [][Next]_vars

----------------------------------------------------------------------------
(* Claims about main, run and Slides *)

\* C1: with at least one slide, after any sequence of next() and prev() the
\* cursor is an index of the slide list: 0 <= current_idx < len.
C1_CursorInRange ==
    Len(slides) >= 1 => (0 <= current_idx /\ current_idx < Len(slides))

\* C1 witness: next() is about to be called on the last of several slides.
C1_Witness ==
    /\ pc = "match" /\ ev = Key("l", "Release")
    /\ Len(slides) >= 3 /\ current_idx = Len(slides) - 1

\* The ways main ends that C2 lists, all of them after setup_terminal succeeded.
AfterSetup == {"quit", "read_to_string", "draw", "poll", "read", "current", "render"}

\* C2: whenever main ends after setup_terminal succeeded (clean quit, load
\* error, error in draw, poll or read, no current slide, panic in render),
\* restore_terminal has run first: raw mode is off at exit.
C2_RestoredOnEveryExit ==
    (pc = "exit" /\ cause \in AfterSetup) => (raw = FALSE /\ alt = FALSE)

\* The startup failures C9 lists.
StartupFailures ==
    {"args", "read_to_string", "enable_raw_mode", "EnterAlternateScreen", "Terminal::new"}

\* C9: on a startup failure main ends before the display loop is entered,
\* without having attempted restore_terminal, and with raw mode not enabled.
C9_StartupFailureLeavesRawOff ==
    (pc = "exit" /\ cause \in StartupFailures) =>
        /\ raw = FALSE
        /\ draws = <<>> /\ rstate = "idle" /\ quit = FALSE

\* C10: once the loop is left through a Release of q, main ends with the
\* terminal restored (raw mode off, alternate screen left) and returns
\* success.
C10_QuitAlwaysSucceeds ==
    (quit /\ pc = "exit") => (result = "ok" /\ raw = FALSE /\ alt = FALSE)

----------------------------------------------------------------------------
(* The split pipeline of mkslides (lines 161-163), one action per piece *)

\* The longest document of SpecSplit.
MaxDocLen == 6

SplitDocs == SeqsUpTo({"-", "a", "\n"}, MaxDocLen)

\* The iterator has yielded its last piece.
Finished == <<"<finished>">>

InitSplit ==
    /\ doc \in SplitDocs
    /\ rest = doc
    /\ sections = <<>>
    /\ checked = FALSE
    /\ MainIdle /\ ConvIdle /\ RenderIdle

\* A separator is found: the piece before it is trimmed and yielded.
SplitPiece ==
    /\ rest # Finished
    /\ Find(rest, Sep) # 0
    /\ sections' = Append(sections, TrimSection(SubSeq(rest, 1, Find(rest, Sep) - 1)))
    /\ rest' = SubSeq(rest, Find(rest, Sep) + Len(Sep), Len(rest))
    /\ UNCHANGED <<doc, mainVars, checked, convVars, renderVars>>

\* No separator is left: what remains is the last piece.
SplitLast ==
    /\ rest # Finished
    /\ Find(rest, Sep) = 0
    /\ sections' = Append(sections, TrimSection(rest))
    /\ rest' = Finished
    /\ UNCHANGED <<doc, mainVars, checked, convVars, renderVars>>

NextSplit == SplitPiece \/ SplitLast

SpecSplit == InitSplit /\ [][NextSplit]_vars

\* The lines of a text: the pieces between line feeds.
TextLines(s) == split(s, NL)

\* A line consisting solely of three or more hyphens.
IsSeparatorLine(l) == Len(l) >= 3 /\ \A i \in 1..Len(l) : l[i] = "-"

SeparatorLines(s) ==
    Cardinality({i \in 1..Len(TextLines(s)) : IsSeparatorLine(TextLines(s)[i])})

\* C6: the number of sections is 1 + the number of lines that consist solely
\* of three or more hyphens; each such line is one boundary whatever its
\* length, and hyphens inside a line of other text are none.
C6_BoundariesAreSeparatorLines ==
    rest = Finished => Len(sections) = 1 + SeparatorLines(doc)

----------------------------------------------------------------------------
(* The traversal closure of mkslides (lines 165-251), one action per edge *)

\* The most inline nodes in a heading or paragraph.
MaxInlines == 2

\* The most items in a list.
MaxItems == 2

A == <<"a">>

B == <<"b">>

C == <<"c">>

SeqsFromTo(S, lo, hi) == {q \in SeqsUpTo(S, hi) : Len(q) >= lo}

Inlines == {Text(A), InlineCode(C)}

\* Inline text and inline code alternate: comrak merges adjacent text, and two
\* code spans do not touch.
InlineSeqs ==
    {q \in SeqsFromTo(Inlines, 1, MaxInlines) :
        \A i \in 1..(Len(q) - 1) : q[i].value # q[i + 1].value}

CodeBlocks == {CodeBlock(QrTag, <<" ">> \o A \o NL), CodeBlock(<<"r", "s">>, <<" ">> \o A \o NL)}

LeafBlocks ==
    {HeadingNode(q) : q \in InlineSeqs} \cup {ParagraphNode(q) : q \in InlineSeqs}
    \cup CodeBlocks \cup {ParagraphNode(<<Emph(<<Text(A)>>)>>)}

\* What a list item may hold: text, text and a nested list, text and a code
\* block, text and inline code, inline code alone.
ItemBodies ==
    { <<ParagraphNode(<<Text(A)>>)>>,
      <<ParagraphNode(<<Text(A)>>), List(<<Item(<<ParagraphNode(<<Text(B)>>)>>)>>)>>,
      <<ParagraphNode(<<Text(A)>>), CodeBlock(<<>>, B \o NL)>>,
      <<ParagraphNode(<<Text(A), InlineCode(C)>>)>>,
      <<ParagraphNode(<<InlineCode(C)>>)>> }

Lists == {List(q) : q \in SeqsFromTo({Item(b) : b \in ItemBodies}, 1, MaxItems)}

Blocks == LeafBlocks \cup Lists

\* What may follow a block: nothing, bare text, a heading.
Followers == {<<>>, <<ParagraphNode(<<Text(B)>>)>>, <<HeadingNode(<<Text(B)>>)>>}

\* "# Title\n\nSome `code` text"
TitleCodeTree ==
    Document(<<HeadingNode(<<Text(<<"T", "i", "t", "l", "e">>)>>),
               ParagraphNode(<<Text(<<"S", "o", "m", "e", " ">>),
                               InlineCode(<<"c", "o", "d", "e">>),
                               Text(<<" ", "t", "e", "x", "t">>)>>)>>)

\* "- a\n- b"
TwoItemsTree ==
    Document(<<List(<<Item(<<ParagraphNode(<<Text(A)>>)>>),
                      Item(<<ParagraphNode(<<Text(B)>>)>>)>>)>>)

ConvTrees ==
    {EmptyTree, TitleCodeTree, TwoItemsTree}
    \cup {Document(<<b>> \o f) : b \in Blocks, f \in Followers}

InitConv ==
    /\ tree \in ConvTrees
    /\ edges = traverse(tree)
    /\ items = <<>>
    /\ new = TRUE
    /\ checked = FALSE
    /\ MainIdle /\ SplitIdle /\ RenderIdle

St == Conv(items, new)

\* The closure's state becomes st and the traversal moves on.
Becomes(st) ==
    /\ items' = st.items
    /\ new' = st.new
    /\ edges' = Tail(edges)
    /\ UNCHANGED <<tree, mainVars, checked, splitVars, renderVars>>

AtStart(v) == edges # <<>> /\ Head(edges).edge = "Start" /\ Head(edges).value = v

StepEnd == edges # <<>> /\ Head(edges).edge = "End" /\ Becomes(OnEnd(St))

StepList == AtStart("List") /\ Becomes(OnList(St))

StepHeading == AtStart("Heading") /\ Becomes(OnHeading(St))

StepCodeBlock ==
    AtStart("CodeBlock") /\ Becomes(OnCodeBlock(St, Head(edges).info, Head(edges).literal))

StepItem == AtStart("Item") /\ Becomes(OnItem(St))

StepCode == AtStart("Code") /\ Becomes(OnCode(St, Head(edges).literal))

StepText == AtStart("Text") /\ Becomes(OnText(St, Head(edges).literal))

\* Every other node value (line 244)
StepOther ==
    /\ edges # <<>> /\ Head(edges).edge = "Start"
    /\ Head(edges).value \notin {"List", "Heading", "CodeBlock", "Item", "Code", "Text"}
    /\ Becomes(St)

NextConv ==
    \/ StepEnd \/ StepList \/ StepHeading \/ StepCodeBlock
    \/ StepItem \/ StepCode \/ StepText \/ StepOther

SpecConv == InitConv /\ [][NextConv]_vars

ConvDone == tree # None /\ edges = <<>>

RECURSIVE InlineText(_)
\* The inline text and inline code inside a node, in order, inline code
\* between backticks.
InlineText(n) ==
    LET RECURSIVE kids(_)
        kids(cs) == IF cs = <<>> THEN <<>> ELSE InlineText(Head(cs)) \o kids(Tail(cs))
    IN  CASE n.value = "Text" -> n.literal
          [] n.value = "Code" -> Tick \o n.literal \o Tick
          [] OTHER -> kids(n.children)

\* The block C3 expects for a heading or paragraph node.
BlockOf(n) ==
    IF n.value = "Heading" THEN Heading(InlineText(n)) ELSE Paragraph(InlineText(n))

OnlyHeadingsAndParagraphs(t) ==
    \A i \in 1..Len(t.children) : t.children[i].value \in {"Heading", "Paragraph"}

\* C3: every heading node yields one Heading and every paragraph node one
\* Paragraph, holding all the inline text and inline code of the node in
\* order; "# Title\n\nSome `code` text" yields Heading("Title") and
\* Paragraph("Some `code` text"), and "- a\n- b" yields BulletList(a, b).
C3_OneBlockPerNode ==
    ConvDone =>
        /\ OnlyHeadingsAndParagraphs(tree) =>
              items = [i \in 1..Len(tree.children) |-> BlockOf(tree.children[i])]
        /\ tree = TwoItemsTree => items = <<Bullets(<<A, B>>)>>

FilterKind(its, k) == SelectSeq(its, LAMBDA it : it.kind = k)

TopLevelLists(t) == SelectSeq(t.children, LAMBDA n : n.value = "List")

\* C4: there is one BulletList per top-level list node, in order, and it has
\* as many items as that list.
C4_OneBulletListPerList ==
    ConvDone =>
        LET bs == FilterKind(items, "Bullets")
            ls == TopLevelLists(tree)
        IN  /\ Len(bs) = Len(ls)
            /\ \A i \in 1..Len(bs) : Len(bs[i].bullets) = Len(ls[i].children)

----------------------------------------------------------------------------
(* Further claims about main and run *)

\* C13: with at least one slide, a released 'h' at cursor 0 leaves the cursor
\* at 0 and elsewhere lowers it by one; a released 'l' at cursor len-1 leaves
\* it there and elsewhere raises it by one; neither changes the slides.
C13_CursorStepsByOne ==
    [][ (pc = "match" /\ Len(slides) >= 1) =>
          /\ slides' = slides
          /\ ev = Key("h", "Release") =>
                current_idx' = (IF current_idx = 0 THEN 0 ELSE current_idx - 1)
          /\ ev = Key("l", "Release") =>
                current_idx' = (IF current_idx = Len(slides) - 1
                                THEN current_idx ELSE current_idx + 1) ]_vars

\* C13 witness: next() has brought the cursor to the last of several slides,
\* and the loop is about to draw it.
C13_Witness ==
    /\ pc = "draw" /\ Len(slides) >= 2
    /\ current_idx = Len(slides) - 1

\* The states of run's loop.
InLoop == {"draw", "render", "poll", "read", "match"}

\* The section a slide was made from has no content node.
EmptySection(i) == parse_document(Sections(doc)[i]).children = <<>>

\* The one draw of a slide without blocks: the title bar at (0, 1), one row
\* high, two columns wider than the title.
TitleOnly == <<[area |-> None, rect |-> Rect(0, 1, Len(Path) + 2, 1), next |-> 4]>>

\* C15: a section without content nodes gives a slide without blocks, and
\* rendering a slide without blocks draws the title bar and nothing else.
C15_EmptySectionTitleOnly ==
    pc \in InLoop =>
        /\ \A i \in 1..Len(slides) : EmptySection(i) => slides[i].items = <<>>
        /\ (pc \in {"render", "poll", "read", "match"}
              /\ slides[current_idx + 1].items = <<>>) =>
              /\ rstate \in {"title", "done", "idle"}
              /\ rstate = "title" => draws = <<>>
              /\ rstate # "title" => draws = TitleOnly

\* C15 witness: the second slide, made from an empty section after a section
\* with blocks, has been drawn.
C15_Witness ==
    /\ pc = "poll" /\ current_idx = 1
    /\ EmptySection(2) /\ ~EmptySection(1)
    /\ draws = TitleOnly

\* C17: a matched event does exactly one of quit, previous, next and nothing,
\* and all but quit lead to a draw; poll is entered only from a finished draw
\* of the slide at the cursor, every block drawn once; a draw starts with the
\* blocks of the slide at the cursor and the cursor stands still during it;
\* after quit nothing is drawn.
C17_DrawBeforeEveryPoll ==
    [][ /\ pc = "match" =>
              \/ ev = Key("q", "Release") /\ quit' /\ pc' = "disable_raw"
                   /\ current_idx' = current_idx
              \/ ev = Key("h", "Release") /\ ~quit' /\ pc' = "draw"
                   /\ current_idx' = prev(current_idx)
              \/ ev = Key("l", "Release") /\ ~quit' /\ pc' = "draw"
                   /\ current_idx' = next(slides, current_idx)
              \/ ev \notin {Key("q", "Release"), Key("h", "Release"), Key("l", "Release")}
                   /\ ~quit' /\ pc' = "draw" /\ current_idx' = current_idx
        /\ pc' = "poll" =>
              /\ pc = "render" /\ rstate = "done" /\ todo = <<>>
              /\ current_idx' = current_idx
              /\ Len(draws) = 1 + Len(slides[current_idx + 1].items)
        /\ (pc = "draw" /\ pc' = "render") =>
              draws' = <<>> /\ todo' = slides[current_idx + 1].items
        /\ pc = "render" => current_idx' = current_idx /\ slides' = slides
        /\ draws' # draws => pc \in {"draw", "render"}
        /\ quit => draws' = draws /\ pc' \notin InLoop /\ quit' ]_vars

\* C17 witness: after 'l' the second slide, one with blocks, has been drawn
\* and the loop is about to poll.
C17_Witness ==
    /\ pc = "poll" /\ current_idx = 1
    /\ slides[2].items # <<>>
    /\ Len(draws) = 1 + Len(slides[2].items)

\* C19: mkslides returns at least one slide and cursor 0; in the loop current() is always a slide, the collection is never
\* empty where next() is called, and main never ends for want of a current
\* slide or in next().
C19_NeverWithoutSlides ==
    [][ /\ (pc = "mkslides" /\ pc' = "draw") =>
              Len(slides') >= 1 /\ current_idx' = 0
        /\ pc' \in InLoop =>
              /\ Len(slides') >= 1
              /\ current_idx' \in 0..(Len(slides') - 1)
        /\ cause' \notin {"current", "next"} ]_vars

\* C19 witness: the empty document gave one slide, and 'l' is released on it.
C19_Witness ==
    /\ pc = "match" /\ ev = Key("l", "Release")
    /\ doc = <<>> /\ Len(slides) = 1 /\ current_idx = 0

----------------------------------------------------------------------------
(* Further claims about the traversal closure *)

\* The nodes of a tree in document order, as their Start edges.
StartEdges(t) == SelectSeq(traverse(t), LAMBDA e : e.edge = "Start")

CodeBlockEdges(t) == SelectSeq(StartEdges(t), LAMBDA e : e.value = "CodeBlock")

Tagged(t)   == SelectSeq(CodeBlockEdges(t), LAMBDA e : e.info = QrTag)

Untagged(t) == SelectSeq(CodeBlockEdges(t), LAMBDA e : e.info # QrTag)

Texts(its) == [i \in 1..Len(its) |-> its[i].text]

\* C11: the QR blocks are exactly the code blocks tagged "qrcode", in order,
\* each holding the trimmed literal; the Code blocks are exactly the other
\* code blocks, in order, each holding the literal as it is.
C11_QrIffTagged ==
    ConvDone =>
        /\ Texts(FilterKind(items, "QR")) =
              [i \in 1..Len(Tagged(tree)) |-> trim(Tagged(tree)[i].literal)]
        /\ Texts(FilterKind(items, "Code")) =
              [i \in 1..Len(Untagged(tree)) |-> Untagged(tree)[i].literal]

\* C11 witness: a block tagged "qrcode" with literal " a\n" gave the QR "a".
C11_Witness ==
    /\ ConvDone
    /\ \E i \in 1..Len(items) : items[i] = QR(A)
    /\ \E i \in 1..Len(tree.children) :
          tree.children[i] = CodeBlock(QrTag, <<" ">> \o A \o NL)

\* What the last item's growing text is: a Heading's or Paragraph's text, the
\* last bullet of a Bullets that has one.
Target(its) ==
    IF its = <<>> THEN <<"<none>">>
    ELSE LET it == its[Len(its)]
         IN  CASE it.kind \in {"Heading", "Paragraph"} -> it.text
               [] it.kind = "Bullets" /\ it.bullets # <<>> -> it.bullets[Len(it.bullets)]
               [] OTHER -> <<"<none>">>

\* The items as the inline node finds them: with the Paragraph opened for it
\* when `new` is set.
Opened == IF new THEN Append(items, Paragraph(<<>>)) ELSE items

\* The edge being handled is the start of an inline node that is folded into
\* a Heading, a Paragraph or a bullet.
Folds(v) == AtStart(v) /\ Target(Opened) # <<"<none>">>

\* C12: folding inline code appends a backtick, the literal and a backtick,
\* folding text appends the literal alone; nothing else of the target changes.
C12_BackticksAroundCodeOnly ==
    [][ /\ Folds("Code") =>
            Target(items') = Target(Opened) \o <<"<backtick>">> \o Head(edges).literal
                                            \o <<"<backtick>">>
        /\ Folds("Text") =>
            Target(items') = Target(Opened) \o Head(edges).literal ]_vars

\* C12 witness: inline code was folded into a heading after text, and into a
\* bullet.
C12_Witness ==
    /\ ConvDone
    /\ \E i \in 1..Len(items) :
          items[i].kind = "Bullets" /\ items[i].bullets = <<<<"<backtick>", "c", "<backtick>">>>>

\* The edges the closure has handled so far.
Handled == SubSeq(traverse(tree), 1, Len(traverse(tree)) - Len(edges))

\* The positions in Handled where a List, Heading or CodeBlock node starts:
\* each pushes one block, and nothing else pushes a block of those kinds.
BlockStarts ==
    { i \in 1..Len(Handled) :
        Handled[i].edge = "Start" /\ Handled[i].value \in {"List", "Heading", "CodeBlock"} }

\* Starts less Ends among the edges p..q of Handled.
Balance(p, q) ==
    Cardinality({i \in p..q : Handled[i].edge = "Start"})
      - Cardinality({i \in p..q : Handled[i].edge = "End"})

\* The last block is of a List, Heading or CodeBlock node whose subtree the
\* traversal has left.
LastBlockClosed ==
    /\ items # <<>>
    /\ items[Len(items)].kind \in {"Bullets", "Heading", "Code", "QR"}
    /\ BlockStarts # {}
    /\ LET p == CHOOSE i \in BlockStarts : \A j \in BlockStarts : j <= i
       IN  \E q \in p..Len(Handled) : Balance(p, q) = 0

\* C18: an inline text or inline code node met when the last block belongs to
\* a List, Heading or CodeBlock that the traversal has left starts a new
\* Paragraph and leaves every earlier block as it was.
C18_ClosedBlockNeverGrows ==
    [][ ((AtStart("Text") \/ AtStart("Code")) /\ LastBlockClosed) =>
           /\ Len(items') = Len(items) + 1
           /\ items'[Len(items')].kind = "Paragraph"
           /\ SubSeq(items', 1, Len(items)) = items ]_vars

\* What an inline node contributes: its literal, between backticks for code.
Contribution(e) ==
    CASE e.value = "Text" -> e.literal
      [] e.value = "Code" -> <<"<backtick>">> \o e.literal \o <<"<backtick>">>
      [] OTHER -> <<>>

\* The inline content of a tree, in document order.
Content(t) == Concat([i \in 1..Len(StartEdges(t)) |-> Contribution(StartEdges(t)[i])])

\* The text the blocks hold, in order: Heading and Paragraph texts and the
\* items of the bullet lists.
Emitted(its) ==
    Concat([i \in 1..Len(its) |->
              CASE its[i].kind \in {"Heading", "Paragraph"} -> its[i].text
                [] its[i].kind = "Bullets" -> Concat(its[i].bullets)
                [] OTHER -> <<>>])

\* C20: when the traversal is over, the Heading and Paragraph texts and the
\* bullet list items hold, in document order, the literal of every inline
\* text and inline code node of the tree.
C20_NoContentDropped == ConvDone => Emitted(items) = Content(tree)

----------------------------------------------------------------------------
(* render_slide's closure on a slide and a frame *)

\* The most blocks of a slide of SpecRender.
MaxBlocks == 2

\* A text of n lines, each of len characters.
TextOf(n, len) == Concat([i \in 1..n |-> [j \in 1..len |-> "a"] \o NL])

RenderSamples ==
    { Heading(<<"T", "i", "t", "l", "e">>),
      Paragraph(TextOf(3, 45)), Paragraph(TextOf(1, 80)), Paragraph(TextOf(1, 160)),
      Bullets(<<A, B \o B>>), Code(TextOf(2, 3)),
      QR(A), QR(LongPayload) }

InitRender ==
    /\ todo \in SeqsUpTo(RenderSamples, MaxBlocks)
    /\ frame \in Frames
    /\ checked \in BOOLEAN
    /\ prev_y = 0 /\ draws = <<>> /\ rstate = "title"
    /\ MainIdle /\ SplitIdle /\ ConvIdle

NextRender == RenderTitle \/ RenderNext

SpecRender == InitRender /\ [][NextRender]_vars

\* C5: every block's render returns an offset at or below the bottom of the
\* rectangle it drew: next >= y + height.
C5_NextOffsetBelowRect ==
    \A i \in 1..Len(draws) :
        draws[i].area # None => draws[i].next >= draws[i].rect.y + draws[i].rect.height

\* C8: whenever render_slide is about to compute the rectangle of the next
\* block, neither `width - 8` nor `height - prev_y` underflows, and the pass
\* is not aborted by it.
C8_AreaNeverUnderflows ==
    /\ rstate = "items" => ~Underflows(frame, prev_y)
    /\ rstate = "panic" => ~Underflows(frame, prev_y)

\* The source lines of a text: what line feeds separate, a line feed at the
\* end closing the last line.
SourceLines(src) ==
    LET ps == split(src, NL)
    IN  IF ps[Len(ps)] = <<>> THEN Front(ps) ELSE ps

\* C14: a Paragraph whose longest source line has m characters and which has
\* n source lines, rendered at offset y, is drawn in a rectangle at (x, y) of
\* height m div 80 + 2 and of width m if that height is 1 and 80 otherwise,
\* and returns y + n + 2.
C14_ParagraphRect ==
    [][ (rstate = "items" /\ todo # <<>> /\ Head(todo).kind = "Paragraph"
           /\ rstate' # "panic") =>
          LET m == MaxOf(Lens(SourceLines(Head(todo).text)))
              n == Len(SourceLines(Head(todo).text))
              h == (m \div 80) + 2
              d == draws'[Len(draws')]
          IN  /\ Len(draws') = Len(draws) + 1
              /\ d.rect = [x |-> 4, y |-> prev_y, width |-> (IF h = 1 THEN m ELSE 80),
                           height |-> h]
              /\ d.next = prev_y + n + 2
              /\ prev_y' = d.next ]_vars

\* C14 witness: the paragraph of three lines of 45 characters was drawn at
\* offset 4, 80 wide and 2 high, and returned 9.
C14_Witness ==
    \E i \in 1..Len(draws) :
        /\ draws[i].area # None
        /\ draws[i].rect = [x |-> 4, y |-> 4, width |-> 80, height |-> 2]
        /\ draws[i].next = 9

\* C16: the blocks are drawn in order until none is left, the first at
\* offset 4 and each later one at the offset the render before it returned,
\* all at x = 4 in an area as wide as the frame less 8 and as high as the
\* frame less the offset.
C16_AreasFollowTheFrame ==
    /\ rstate = "done" => todo = <<>>
    /\ \A i \in 2..Len(draws) :
          /\ draws[i].area.x = 4
          /\ draws[i].area.y = (IF i = 2 THEN 4 ELSE draws[i - 1].next)
          /\ draws[i].area.width = frame.width - 8
          /\ draws[i].area.height = frame.height - draws[i].area.y

====
